---- MODULE Spec2Model ----
(***************************************************************************)
(* DynamicalSystemDemo: the system classes and registry of systems.py and  *)
(* the configure-then-solve script of app.py.                              *)
(*                                                                         *)
(* Reals are fixed-point: the real v is the integer v * Scale (three       *)
(* decimals, the resolution of the app's "%.3f" time step).  Sums are      *)
(* exact, products are rounded back to the resolution (Mul), quotients     *)
(* likewise (Div).  The rounding of IEEE doubles is not modelled: the      *)
(* quotient t_max / dt that fixes the length of the time grid is exact.    *)
(***************************************************************************)
EXTENDS Integers, Sequences, FiniteSets, TLC

VARIABLES
    objects,   \* the fields of the three instances SYSTEMS holds
    handle,    \* the object the client's variable `system` refers to (0: none yet)
    params,    \* the client's params dict
    last,      \* the outcome of the latest call of the client
    pinned,    \* a trajectory the client has kept from an earlier solve call
    gap,       \* what the client has done since it kept it
    sess       \* the script runs (sessions) of app.py, one record per session

vars == <<objects, handle, params, last, pinned, gap, sess>>

---------------------------------------------------------------------------
(* Fixed-point numbers *)

Scale == 1000

Mul(a, b) == (a * b) \div Scale

Div(a, b) == (a * Scale) \div b

CeilDiv(a, b) == (a + b - 1) \div b

\* numpy.sin on fixed-point radians (Bhaskara's rational approximation on
\* one period; the library's sine is not in the repository).
Pi == 3142

SinPos(r) == (16 * Scale * Mul(r, Pi - r)) \div (49348 - 4 * Mul(r, Pi - r))

Sin(v) ==
    LET r == v % (2 * Pi)
    IN  IF r <= Pi THEN SinPos(r) ELSE 0 - SinPos(r - Pi)

---------------------------------------------------------------------------
(* Bounds of the model *)

\* solve is explored only on grids of at most MaxPoints samples
MaxPoints == 101

\* the integrator's states are kept within [-StateMax, StateMax]
StateMax == 20000

\* at most MaxChanged fields of the registry differ from their constructed values
MaxChanged == 2

---------------------------------------------------------------------------
(* systems.py: the three system classes *)

LorenzKeys == <<"sigma", "rho", "beta">>

RosslerKeys == <<"a", "b", "c">>

ThomasKeys == <<"b">>

\* DynamicalSystem.__init__: the six fields, with the defaults t_max = 50.0
\* and dt = 0.01 of the signature.  default_params is the ordered dict,
\* held as its key order and its values.
DefaultTMax == 50000

DefaultDt == 10

DynamicalSystem(cls, name, keys, default_params, param_ranges, initial_state, t_max, dt) ==
    [cls |-> cls, name |-> name, keys |-> keys, default_params |-> default_params,
     param_ranges |-> param_ranges, initial_state |-> initial_state,
     t_max |-> t_max, dt |-> dt]

LorenzSystem ==
    DynamicalSystem("LorenzSystem", "Lorenz Attractor", LorenzKeys,
        [sigma |-> 10000, rho |-> 28000, beta |-> Div(8000, 3000)],
        [sigma |-> <<100, 50000>>, rho |-> <<100, 100000>>, beta |-> <<100, 20000>>],
        <<1000, 1000, 1000>>, DefaultTMax, DefaultDt)

RosslerSystem ==
    DynamicalSystem("RosslerSystem", "Rössler Attractor", RosslerKeys,
        [a |-> 200, b |-> 200, c |-> 5700],
        [a |-> <<0, 1000>>, b |-> <<0, 2000>>, c |-> <<0, 20000>>],
        <<1000, 1000, 1000>>, 100000, DefaultDt)

\* b = 0.208186 at the resolution of the fixed-point reals
ThomasSystem ==
    DynamicalSystem("ThomasSystem", "Thomas Cyclically Symmetric Attractor", ThomasKeys,
        [b |-> 208],
        [b |-> <<0, 1000>>],
        <<1100, 1100, 0 - 10>>, 500000, 50)

\* SYSTEMS: the dict literal.  Its three values are three constructor calls,
\* so three objects; an object is named by its position in Constructed, and
\* the dict maps each key, in insertion order, to its object.
RegistryKeys == <<"Lorenz", "Rössler", "Thomas">>

KeySet == {RegistryKeys[i] : i \in 1..Len(RegistryKeys)}

Constructed == <<LorenzSystem, RosslerSystem, ThomasSystem>>

\* SYSTEMS with the second key holding the first object again
SYSTEMSAliased ==
    [k \in KeySet |->
        CASE k = "Lorenz" -> 1
          [] k = "Rössler" -> 1
          [] k = "Thomas" -> 3]

SYSTEMS ==
    [k \in KeySet |->
        CASE k = "Lorenz" -> 1
          [] k = "Rössler" -> 2
          [] k = "Thomas" -> 3]

Objects == 1..Len(Constructed)

---------------------------------------------------------------------------
(* systems.py: the vector fields *)

\* LorenzEquations with sigma and rho taking each other's place
LorenzEquationsSwapped(state, t, sigma, rho, beta) ==
    LET x == state[1]
        y == state[2]
        z == state[3]
    IN  <<Mul(rho, y - x), Mul(x, sigma - z) - y, Mul(x, y) - Mul(beta, z)>>

LorenzEquations(state, t, sigma, rho, beta) ==
    LET x == state[1]
        y == state[2]
        z == state[3]
    IN  <<Mul(sigma, y - x), Mul(x, rho - z) - y, Mul(x, y) - Mul(beta, z)>>

RosslerEquations(state, t, a, b, c) ==
    LET x == state[1]
        y == state[2]
        z == state[3]
    IN  <<0 - y - z, x + Mul(a, y), b + Mul(z, x - c)>>

ThomasEquations(state, t, b) ==
    LET x == state[1]
        y == state[2]
        z == state[3]
    IN  <<Sin(y) - Mul(b, x), Sin(z) - Mul(b, y), Sin(x) - Mul(b, z)>>

\* self.equations(state, t, **kwargs): the override of the instance's class,
\* each keyword bound to the parameter of that name
Equations(s, state, t, kwargs) ==
    CASE s.cls = "LorenzSystem" ->
            LorenzEquations(state, t, kwargs["sigma"], kwargs["rho"], kwargs["beta"])
      [] s.cls = "RosslerSystem" ->
            RosslerEquations(state, t, kwargs["a"], kwargs["b"], kwargs["c"])
      [] s.cls = "ThomasSystem" ->
            ThomasEquations(state, t, kwargs["b"])

---------------------------------------------------------------------------
(* systems.py: DynamicalSystem.solve *)

\* numpy.arange(start, stop, step) for step > 0: ceil((stop - start) / step)
\* samples start + i * step
\* ArangeLen with the end point counted in: floor((stop - start) / step) + 1
ArangeLenClosed(start, stop, step) ==
    IF stop > start THEN (stop - start) \div step + 1 ELSE 0

ArangeLen(start, stop, step) ==
    IF stop > start THEN CeilDiv(stop - start, step) ELSE 0

\* Arange with the grid begun one step late
ArangeLate(start, stop, step) ==
    [i \in 1..ArangeLen(start, stop, step) |-> start + i * step]

Arange(start, stop, step) ==
    [i \in 1..ArangeLen(start, stop, step) |-> start + (i - 1) * step]

\* line 23: args = tuple(params[k] for k in self.default_params.keys())
MissingKeys(s, p) == {i \in 1..Len(s.keys) : s.keys[i] \notin DOMAIN p}

Args(s, p) == [i \in 1..Len(s.keys) |-> p[s.keys[i]]]

\* lines 26-29: kwargs = dict(zip(self.default_params.keys(), args)), then
\* self.equations(state, t, **kwargs)
Kwargs(s, args) ==
    [k \in {s.keys[i] : i \in 1..Len(s.keys)} |->
        args[CHOOSE i \in 1..Len(s.keys) : s.keys[i] = k]]

Func(s, state, t, args) == Equations(s, state, t, Kwargs(s, args))

\* scipy.integrate.odeint(func, y0, t, args): one row per sample of t, the
\* first row y0.  The library's variable-step integrator is not in the
\* repository; each further row is one explicit step of func from the row
\* before, rounded to the resolution and kept within StateMax.
Clamp(v) == IF v > StateMax THEN StateMax ELSE IF v < 0 - StateMax THEN 0 - StateMax ELSE v

OdeintStep(s, y, t0, t1, args) ==
    LET f == Func(s, y, t0, args)
    IN  [j \in 1..3 |-> Clamp(y[j] + Mul(f[j], t1 - t0))]

RECURSIVE OdeintRows(_, _, _, _)
OdeintRows(s, t, args, rows) ==
    IF Len(rows) >= Len(t) THEN rows
    ELSE LET i == Len(rows)
         IN  OdeintRows(s, t, args,
                 Append(rows, OdeintStep(s, rows[i], t[i], t[i + 1], args)))

\* Odeint with the initial row left out: the rows begin with the first step
OdeintNoInitialRow(s, y0, t, args) ==
    IF Len(t) = 0 THEN <<>>
    ELSE OdeintRows(s, t, args, <<OdeintStep(s, y0, t[1], t[1] + 1, args)>>)

Odeint(s, y0, t, args) ==
    IF Len(t) = 0 THEN <<>> ELSE OdeintRows(s, t, args, <<y0>>)

NoParams == <<>>

Outcome(op, name, obj, outcome, exc, inp, t, states, deriv0) ==
    [op |-> op, name |-> name, obj |-> obj, outcome |-> outcome, exc |-> exc,
     inp |-> inp, t |-> t, states |-> states, deriv0 |-> deriv0]

NoInput == [params |-> NoParams, initial_state |-> <<>>, t_max |-> 0, dt |-> 0]

\* what solve reads: the instance's fields and the argument
SolveInput(s, p) ==
    [params |-> p, initial_state |-> s.initial_state, t_max |-> s.t_max, dt |-> s.dt]

\* SolveResult that hands out the trajectory the caller of an earlier solve
\* on the same object still holds
SolveResultCached(o, s, p) ==
    LET t == Arange(0, s.t_max, s.dt)
    IN  IF MissingKeys(s, p) # {}
        THEN Outcome("solve", "", o, "raised", "KeyError", SolveInput(s, p), <<>>, <<>>, <<>>)
        ELSE IF Len(s.initial_state) # 3
        THEN Outcome("solve", "", o, "raised", "ValueError", SolveInput(s, p), <<>>, <<>>, <<>>)
        ELSE IF pinned.op = "solve" /\ pinned.obj = o /\ pinned.outcome = "returned"
        THEN [pinned EXCEPT !.inp = SolveInput(s, p)]
        ELSE Outcome("solve", "", o, "returned", "", SolveInput(s, p), t,
                     Odeint(s, s.initial_state, t, Args(s, p)),
                     Func(s, s.initial_state, t[1], Args(s, p)))

\* solve(self, params), lines 21-32, on object o with fields s.  A declared
\* name missing from params is a KeyError at line 23; a state that does not
\* unpack into x, y, z is a ValueError out of the first call of func at
\* line 31.  Names of params that are not declared are never read.
SolveResult(o, s, p) ==
    LET t == Arange(0, s.t_max, s.dt)
    IN  IF MissingKeys(s, p) # {}
        THEN Outcome("solve", "", o, "raised", "KeyError", SolveInput(s, p), <<>>, <<>>, <<>>)
        ELSE IF Len(s.initial_state) # 3
        THEN Outcome("solve", "", o, "raised", "ValueError", SolveInput(s, p), <<>>, <<>>, <<>>)
        ELSE Outcome("solve", "", o, "returned", "", SolveInput(s, p), t,
                     Odeint(s, s.initial_state, t, Args(s, p)),
                     Func(s, s.initial_state, t[1], Args(s, p)))

---------------------------------------------------------------------------
(* The client of systems.py: lookups, assignments, solve *)

\* app.py lines 35-36: the bounds of the "Max Time" and "Time Step" inputs
MinTMax == 10000

MaxTMax == 2000000

MinDt == 1

MaxDt == 100

\* values a client assigns (fixed-point): t_max 0.3 is below the app's
\* minimum 10, dt 0.2 above its maximum 0.1; 10.05 is no multiple of 0.1
TMaxValues == {300, 10000, 10050}

DtValues == {100, 200}

StateValues == {<<2000, 0, 0 - 1000>>, <<1000, 1000>>, <<1000, 2000, 3000, 4000>>}

LookupNames == KeySet \cup {"Nonexistent"}

\* params dicts a client passes: the defaults, other values, a declared
\* name left out, an undeclared name added
Without(p, k) == [n \in (DOMAIN p) \ {k} |-> p[n]]

With(p, k, v) == [n \in (DOMAIN p) \cup {k} |-> IF n = k THEN v ELSE p[n]]

ParamChoices(s) ==
    { s.default_params,
      [k \in DOMAIN s.default_params |-> s.default_params[k] + 500],
      Without(s.default_params, s.keys[1]),
      With(s.default_params, "extra", 1000) }

AllParamChoices == UNION {ParamChoices(Constructed[o]) : o \in Objects}

\* no call outcome to report: before the first call, and after a statement
\* that returns nothing (an assignment)
Idle == Outcome("none", "", 0, "returned", "", NoInput, <<>>, <<>>, <<>>)

\* the fields of the objects that differ from their constructed values
Changed(objs) ==
    Cardinality({<<o, f>> \in Objects \X {"t_max", "dt", "initial_state"} :
                    objs[o][f] # Constructed[o][f]})

\* app.py runs once per session, each run a thread of its own over the one
\* SYSTEMS of the imported module: two sessions
Sessions == {1, 2}

\* a script run before its first statement; pc is the line it is about to run
Fresh ==
    [pc |-> "l15", name |-> "", system |-> 0, params |-> NoParams,
     t_max |-> 0, dt |-> 0, init_state |-> <<>>,
     read |-> [t_max |-> 0, dt |-> 0], result |-> Idle]

Init ==
    /\ objects = Constructed
    /\ handle = 0
    /\ params = NoParams
    /\ last = Idle
    /\ pinned = Idle
    /\ gap = "nothing kept"
    /\ sess = [c \in Sessions |-> Fresh]

\* system = SYSTEMS[name]: the object under the key, or KeyError.  As in
\* app.py (lines 16-22) the client starts a new params dict for the system
\* it has got.
Lookup(name) ==
    /\ IF name \in DOMAIN SYSTEMS
       THEN /\ handle' = SYSTEMS[name]
            /\ params' = NoParams
            /\ last' = Outcome("lookup", name, SYSTEMS[name], "returned", "", NoInput, <<>>, <<>>, <<>>)
       ELSE /\ handle' = handle
            /\ params' = params
            /\ last' = Outcome("lookup", name, 0, "raised", "KeyError", NoInput, <<>>, <<>>, <<>>)
    /\ UNCHANGED <<objects, pinned, gap, sess>>

\* params[param_name] = ... for the names the client chooses
BuildParams(p) ==
    /\ handle # 0
    /\ p \in ParamChoices(objects[handle])
    /\ params' = p
    /\ last' = Idle
    /\ UNCHANGED <<objects, handle, pinned, gap, sess>>

\* system.t_max = v
SetTMax(v) ==
    /\ handle # 0
    /\ objects' = [objects EXCEPT ![handle].t_max = v]
    /\ Changed(objects') <= MaxChanged
    /\ last' = Idle
    /\ gap' = IF gap = "kept" THEN "reconfigured" ELSE gap
    /\ UNCHANGED <<handle, params, pinned, sess>>

\* system.dt = v
SetDt(v) ==
    /\ handle # 0
    /\ objects' = [objects EXCEPT ![handle].dt = v]
    /\ Changed(objects') <= MaxChanged
    /\ last' = Idle
    /\ gap' = IF gap = "kept" THEN "reconfigured" ELSE gap
    /\ UNCHANGED <<handle, params, pinned, sess>>

\* system.initial_state = v
SetInitialState(v) ==
    /\ handle # 0
    /\ objects' = [objects EXCEPT ![handle].initial_state = v]
    /\ Changed(objects') <= MaxChanged
    /\ last' = Idle
    /\ gap' = IF gap = "kept" THEN "reconfigured" ELSE gap
    /\ UNCHANGED <<handle, params, pinned, sess>>

\* Solve that leaves the end of the trajectory in self.initial_state and
\* consumes the entries of params
SolveWritesBack ==
    /\ handle # 0
    /\ ArangeLen(0, objects[handle].t_max, objects[handle].dt) <= MaxPoints
    /\ last' = SolveResult(handle, objects[handle], params)
    /\ objects' = IF last'.outcome = "returned"
                  THEN [objects EXCEPT ![handle].initial_state = last'.states[Len(last'.states)]]
                  ELSE objects
    /\ params' = IF last'.outcome = "returned" THEN NoParams ELSE params
    /\ UNCHANGED <<handle, pinned, gap, sess>>

\* t, states = system.solve(params)
Solve ==
    /\ handle # 0
    /\ ArangeLen(0, objects[handle].t_max, objects[handle].dt) <= MaxPoints
    /\ last' = SolveResult(handle, objects[handle], params)
    /\ gap' = IF gap = "reconfigured" /\ last'.inp # pinned.inp THEN "solved" ELSE gap
    /\ UNCHANGED <<objects, handle, params, pinned, sess>>

Next ==
    \/ \E name \in LookupNames : Lookup(name)
    \/ \E p \in AllParamChoices : BuildParams(p)
    \/ \E v \in TMaxValues : SetTMax(v)
    \/ \E v \in DtValues : SetDt(v)
    \/ \E v \in StateValues : SetInitialState(v)
    \/ Solve

Spec == Init /\ [][Next]_vars

\* app.py line 52 binds the returned (t, states) to the caller's variables:
\* the client keeps the trajectory of its latest solve (once)
Keep ==
    /\ pinned.op = "none"
    /\ last.op = "solve"
    /\ pinned' = last
    /\ gap' = "kept"
    /\ UNCHANGED <<objects, handle, params, last, sess>>

\* the client of SpecKeep works on two of the systems, with dicts that
\* hold every declared name
KeepNames == {"Lorenz", "Thomas"}

KeepParamChoices ==
    UNION {{Constructed[o].default_params,
            [k \in DOMAIN Constructed[o].default_params |->
                Constructed[o].default_params[k] + 500]} : o \in Objects}

NextKeep ==
    \/ \E name \in KeepNames : Lookup(name)
    \/ \E p \in KeepParamChoices : BuildParams(p)
    \/ SetTMax(300)
    \/ \E v \in DtValues : SetDt(v)
    \/ SetInitialState(<<2000, 0, 0 - 1000>>)
    \/ Solve
    \/ Keep

\* the client as above, which may keep one trajectory and go on
SpecKeep == Init /\ [][NextKeep]_vars

---------------------------------------------------------------------------
(* app.py: the script, one statement that touches a system's mutable    *)
(* fields per step                                                       *)

\* what the users do: they select one of two systems, type times within the
\* inputs' bounds and another x coordinate, and leave the sliders alone
UserNames == {"Lorenz", "Rössler"}

UserTMax == {10000, 10050}

UserDt == {100}

UserCoordinate == <<{2000}, {}, {}>>

\* lines 22-32: one slider per name of default_params, its value within
\* param_ranges[name]; left alone it is the default
SliderChoices(s) == {s.default_params}

\* st.sidebar.number_input(value=v, min_value=lo, max_value=hi): what the
\* user typed, or v when the input was left alone (v must lie in the bounds)
NumberInput(v, lo, hi, typed) == {x \in typed \cup {v} : lo <= x /\ x <= hi}

\* lines 15-32: the selected system and the params dict read off the sliders
SelectSystem(c, name) ==
    /\ sess[c].pc = "l15"
    /\ \E p \in SliderChoices(objects[SYSTEMS[name]]) :
          sess' = [sess EXCEPT ![c].pc = "l35", ![c].name = name,
                               ![c].system = SYSTEMS[name], ![c].params = p]
    /\ UNCHANGED <<objects, handle, params, last, pinned, gap>>

\* line 35: t_max = number_input("Max Time", value=system.t_max, 10.0, 2000.0)
InputTMax(c) ==
    /\ sess[c].pc = "l35"
    /\ \E v \in NumberInput(objects[sess[c].system].t_max, MinTMax, MaxTMax, UserTMax) :
          sess' = [sess EXCEPT ![c].pc = "l36", ![c].t_max = v]
    /\ UNCHANGED <<objects, handle, params, last, pinned, gap>>

\* line 36: dt = number_input("Time Step", value=system.dt, 0.001, 0.1)
InputDt(c) ==
    /\ sess[c].pc = "l36"
    /\ \E v \in NumberInput(objects[sess[c].system].dt, MinDt, MaxDt, UserDt) :
          sess' = [sess EXCEPT ![c].pc = "l39", ![c].dt = v]
    /\ UNCHANGED <<objects, handle, params, last, pinned, gap>>

\* line 39: system.t_max = t_max
WriteTMax(c) ==
    /\ sess[c].pc = "l39"
    /\ objects' = [objects EXCEPT ![sess[c].system].t_max = sess[c].t_max]
    /\ sess' = [sess EXCEPT ![c].pc = "l40"]
    /\ UNCHANGED <<handle, params, last, pinned, gap>>

\* line 40: system.dt = dt
WriteDt(c) ==
    /\ sess[c].pc = "l40"
    /\ objects' = [objects EXCEPT ![sess[c].system].dt = sess[c].dt]
    /\ sess' = [sess EXCEPT ![c].pc = "l47"]
    /\ UNCHANGED <<handle, params, last, pinned, gap>>

\* lines 46-48, one turn of the loop: the next coordinate, typed or
\* system.initial_state[i]
InputCoordinate(c) ==
    /\ sess[c].pc = "l47"
    /\ LET i == Len(sess[c].init_state) + 1
       IN  \E v \in UserCoordinate[i] \cup {objects[sess[c].system].initial_state[i]} :
              sess' = [sess EXCEPT ![c].init_state = Append(@, v),
                                   ![c].pc = IF i = 3 THEN "l49" ELSE "l47"]
    /\ UNCHANGED <<objects, handle, params, last, pinned, gap>>

\* line 49: system.initial_state = init_state
WriteInitialState(c) ==
    /\ sess[c].pc = "l49"
    /\ objects' = [objects EXCEPT ![sess[c].system].initial_state = sess[c].init_state]
    /\ sess' = [sess EXCEPT ![c].pc = "l21"]
    /\ UNCHANGED <<handle, params, last, pinned, gap>>

\* line 52 into solve, line 21: self.t_max and self.dt are read for the grid
SolveGrid(c) ==
    /\ sess[c].pc = "l21"
    /\ ArangeLen(0, objects[sess[c].system].t_max, objects[sess[c].system].dt) <= MaxPoints
    /\ sess' = [sess EXCEPT ![c].pc = "l31",
                            ![c].read = [t_max |-> objects[sess[c].system].t_max,
                                         dt |-> objects[sess[c].system].dt]]
    /\ UNCHANGED <<objects, handle, params, last, pinned, gap>>

\* solve, lines 23-32: self.initial_state is read for odeint, over the grid
\* of line 21; the script has its trajectory
SolveIntegrate(c) ==
    /\ sess[c].pc = "l31"
    /\ sess' = [sess EXCEPT ![c].pc = "done",
                            ![c].result =
                                SolveResult(sess[c].system,
                                    [objects[sess[c].system] EXCEPT
                                        !.t_max = sess[c].read.t_max,
                                        !.dt = sess[c].read.dt],
                                    sess[c].params)]
    /\ UNCHANGED <<objects, handle, params, last, pinned, gap>>

NextSessions ==
    \E c \in Sessions :
        \/ \E name \in UserNames : SelectSystem(c, name)
        \/ InputTMax(c)
        \/ InputDt(c)
        \/ WriteTMax(c)
        \/ WriteDt(c)
        \/ InputCoordinate(c)
        \/ WriteInitialState(c)
        \/ SolveGrid(c)
        \/ SolveIntegrate(c)

\* two sessions of the app, their statements interleaved
SpecSessions == Init /\ [][NextSessions]_vars

---------------------------------------------------------------------------
(* Properties of Spec *)

Returned == last.op = "solve" /\ last.outcome = "returned"

InRange(inp) ==
    /\ MinTMax <= inp.t_max /\ inp.t_max <= MaxTMax
    /\ MinDt <= inp.dt /\ inp.dt <= MaxDt

DeclaredNames(o) == {objects[o].keys[i] : i \in 1..Len(objects[o].keys)}

C3_MismatchRaises ==
    (last.op = "solve" /\ DOMAIN last.inp.params # DeclaredNames(last.obj)) =>
        last.outcome = "raised"

\* C4 as stated: a t_max outside [10, 2000], a dt outside [0.001, 0.1] or an
\* initial_state that is not 3 numbers is rejected at the assignment or at the
\* following solve: no trajectory is returned from such a configuration.
C4_InvalidRejected ==
    Returned =>
        /\ InRange(last.inp)
        /\ Len(last.inp.initial_state) = 3

\* C5: the first point of the trajectory solve returns has time 0 and the
\* state the system's initial_state held when solve was called.
C5_FirstPoint ==
    Returned =>
        /\ last.t[1] = 0
        /\ last.states[1] = last.inp.initial_state
        /\ last.states[1] = objects[last.obj].initial_state

\* a solve has returned on a system whose initial_state was reassigned
C5_Witness ==
    /\ Returned
    /\ objects[last.obj].initial_state # Constructed[last.obj].initial_state
    /\ Len(last.states) > 1
    /\ last.states[2] # last.states[1]

\* C6: solve changes neither a field of any system (name, default_params,
\* param_ranges, initial_state, t_max, dt) nor the caller's params dict.
C6_SolveFrame ==
    [][(last'.op = "solve" /\ last' # last) => (objects' = objects /\ params' = params)]_vars

\* a solve has returned on a reconfigured system with a non-default params dict
C6_Witness ==
    /\ Returned
    /\ Changed(objects) > 0
    /\ params = last.inp.params
    /\ params # objects[last.obj].default_params
    /\ objects[last.obj].initial_state = last.inp.initial_state

\* C8: the registry has exactly the keys "Lorenz", "Rössler", "Thomas", in
\* that order; each key holds an object of its own, with 3, 3 and 1 declared
\* parameters; a lookup of any other name raises and yields no system.
C8_Registry ==
    /\ RegistryKeys = <<"Lorenz", "Rössler", "Thomas">>
    /\ DOMAIN SYSTEMS = {"Lorenz", "Rössler", "Thomas"}
    /\ \A j, k \in DOMAIN SYSTEMS : j # k => SYSTEMS[j] # SYSTEMS[k]
    /\ last.op = "lookup" =>
        /\ last.name = "Lorenz" =>
              last.outcome = "returned" /\ handle = last.obj /\ Len(objects[handle].keys) = 3
        /\ last.name = "Rössler" =>
              last.outcome = "returned" /\ handle = last.obj /\ Len(objects[handle].keys) = 3
        /\ last.name = "Thomas" =>
              last.outcome = "returned" /\ handle = last.obj /\ Len(objects[handle].keys) = 1
        /\ last.name \notin {"Lorenz", "Rössler", "Thomas"} =>
              last.outcome = "raised" /\ last.obj = 0

\* a lookup of "Nonexistent" has raised while the client holds a system
C8_Witness ==
    /\ last.op = "lookup"
    /\ last.name = "Nonexistent"
    /\ last.outcome = "raised"
    /\ handle # 0

SampleStates == {<<1000, 1000, 1000>>, <<2000, 0, 0 - 1000>>, <<0 - 3000, 500, 7000>>}

SampleTimes == {0, 100, 10000}

SampleParams == {<<10000, 28000, Div(8000, 3000)>>, <<200, 200, 5700>>, <<1000, 0 - 2000, 3000>>}

\* C9: the Lorenz field is (sigma*(y-x), x*(rho-z)-y, x*y-beta*z) and the
\* Rössler field (-y-z, x+a*y, b+z*(x-c)), whatever t is; through solve each
\* declared name is bound to the value params holds under that name; Lorenz
\* at (1,1,1) with sigma=10, rho=28, beta=8/3 gives (0, 26, 1-8/3).
C9_VectorFields ==
    /\ LorenzEquations(<<1000, 1000, 1000>>, 0, 10000, 28000, Div(8000, 3000))
           = <<0, 26000, 1000 - Div(8000, 3000)>>
    /\ \A st \in SampleStates, p \in SampleParams, t \in SampleTimes :
          /\ LorenzEquations(st, t, p[1], p[2], p[3])
                = <<Mul(p[1], st[2] - st[1]),
                    Mul(st[1], p[2] - st[3]) - st[2],
                    Mul(st[1], st[2]) - Mul(p[3], st[3])>>
          /\ RosslerEquations(st, t, p[1], p[2], p[3])
                = <<0 - st[2] - st[3],
                    st[1] + Mul(p[1], st[2]),
                    p[2] + Mul(st[3], st[1] - p[3])>>
    /\ Returned =>
          LET st == last.inp.initial_state
              p == last.inp.params
              s == objects[last.obj]
          IN  /\ s.cls = "LorenzSystem" =>
                    last.deriv0 = <<Mul(p["sigma"], st[2] - st[1]),
                                    Mul(st[1], p["rho"] - st[3]) - st[2],
                                    Mul(st[1], st[2]) - Mul(p["beta"], st[3])>>
              /\ s.cls = "RosslerSystem" =>
                    last.deriv0 = <<0 - st[2] - st[3],
                                    st[1] + Mul(p["a"], st[2]),
                                    p["b"] + Mul(st[3], st[1] - p["c"])>>
              /\ \A t \in SampleTimes :
                    Func(s, st, t, Args(s, p)) = last.deriv0

\* solve has returned on the Lorenz system at its default parameters and
\* initial state: the first derivative is (0, 26, 1 - 8/3)
C9_Witness ==
    /\ Returned
    /\ objects[last.obj].cls = "LorenzSystem"
    /\ last.inp.params = LorenzSystem.default_params
    /\ last.inp.initial_state = <<1000, 1000, 1000>>
    /\ last.deriv0 = <<0, 26000, 0 - 1666>>

---------------------------------------------------------------------------
(* Properties of SpecKeep *)

---------------------------------------------------------------------------
(* Properties of SpecSessions *)

Lines == <<"l15", "l35", "l36", "l39", "l40", "l47", "l49", "l21", "l31", "done">>

LineNo(pc) == CHOOSE i \in 1..Len(Lines) : Lines[i] = pc

\* session d has run the assignment at line pc
Past(d, pc) == LineNo(sess[d].pc) > LineNo(pc)

Used(c) == sess[c].result.inp

\* C10: the sequence 'assign t_max, dt, initial_state, then solve' is not
\* safe when two callers run it on one registry system: a caller's solve can
\* compute its trajectory from a t_max, dt or initial_state that is not the
\* one it assigned (C10_Witness is such a run).  Every such value is one the
\* other caller has assigned, to the system under the same registry key.
C10_ForeignValues ==
    \A c \in Sessions :
        sess[c].pc = "done" =>
            /\ \/ Used(c).t_max = sess[c].t_max
               \/ \E d \in Sessions \ {c} :
                     /\ sess[d].name = sess[c].name
                     /\ Past(d, "l39")
                     /\ Used(c).t_max = sess[d].t_max
            /\ \/ Used(c).dt = sess[c].dt
               \/ \E d \in Sessions \ {c} :
                     /\ sess[d].name = sess[c].name
                     /\ Past(d, "l40")
                     /\ Used(c).dt = sess[d].dt
            /\ \/ Used(c).initial_state = sess[c].init_state
               \/ \E d \in Sessions \ {c} :
                     /\ sess[d].name = sess[c].name
                     /\ Past(d, "l49")
                     /\ Used(c).initial_state = sess[d].init_state

\* a session's solve has returned a trajectory over the other session's
\* t_max and from the other session's initial state: another number of
\* points and another first point than its own configuration gives
C10_Witness ==
    \E c \in Sessions :
        /\ sess[c].pc = "done"
        /\ sess[c].result.outcome = "returned"
        /\ Used(c).t_max # sess[c].t_max
        /\ Used(c).initial_state # sess[c].init_state
        /\ Len(sess[c].result.t) # ArangeLen(0, sess[c].t_max, sess[c].dt)
        /\ sess[c].result.states[1] # sess[c].init_state

====
